---- MODULE Spec2Model ----
(***************************************************************************)
(* Model of tinyvm.rs: the word stack, the bytecode engine (VM::run), the  *)
(* dispatcher (Contract::call) and the lowering pass.                      *)
(*                                                                         *)
(* A 256-bit word is the record [hi, lo]: lo is the low 64 bits (what      *)
(* U256::as_usize keeps on a 64-bit target), hi the 192 bits above them.   *)
(* Programs and storage are sequences, so index i of the source is         *)
(* position i + 1 here.                                                    *)
(***************************************************************************)
EXTENDS Integers, Sequences, FiniteSets, TLC

VARIABLES
    contract,   \* the caller's Contract value (self of Contract::call)
    vm,         \* the VM: stack, program, pc
    storage,    \* the local `storage` of VM::run (the engine's storage output)
    phase,      \* position of the program: lower, ready, run, ran, panic, idle, stack
    callee,     \* calldata of the call in progress or last made
    ret,        \* the Vec<Expression> last returned by Contract::call
    fault,      \* the panic that ended the last run, "none" otherwise
    executed,   \* indices of the instructions fetched by the current run
    lastop,     \* the last operation applied to the stack through its API
    lowered,    \* numbers of contract parts handled so far
    viewOnly    \* no function other than View or Pure ones has been called yet

vars == <<contract, vm, storage, phase, callee, ret, fault, executed, lastop, lowered, viewOnly>>

----------------------------------------------------------------------------
(* Bounds of the exploration                                               *)

MaxProgLen == 3      \* longest program handed to VM::new directly
MaxParts == 3        \* variable and function definitions lowered per contract
EdgeDepth == 2       \* stack depths next to empty and to full explored freely
MaxWideVars == 257   \* state variables declared by the wide contract

----------------------------------------------------------------------------
(* Words                                                                   *)

Cap == 1024

Word(h, l) == [hi |-> h, lo |-> l]
ZERO == Word(0, 0)
ONE == Word(0, 1)
U256From(value) == Word(0, value)
AsUsize(w) == w.lo

None == [some |-> FALSE]
Some(v) == [some |-> TRUE, v |-> v]

----------------------------------------------------------------------------
(* Stack                                                                   *)

\* stackarr is [U256; 1024], created all ZERO. It is held as the sequence of
\* its cells up to the highest one written so far: cell i is stackarr[i + 1]
\* when i < Len(stackarr), and is still the initial ZERO otherwise. push32
\* writes cell `top` and top never exceeds the number of cells written, so a
\* write either replaces a held cell or appends the next one.
StackNew == [stackarr |-> <<>>, top |-> 0]

Cell(s, i) == IF i < Len(s.stackarr) THEN s.stackarr[i + 1] ELSE ZERO

SetCell(arr, i, value) ==
    IF i < Len(arr) THEN [arr EXCEPT ![i + 1] = value] ELSE Append(arr, value)

\* variant: the capacity test of push32 lets one push too many through
push32_off_by_one(s, value) ==
    IF s.top <= Cap
    THEN [stackarr |-> SetCell(s.stackarr, s.top, value), top |-> s.top + 1]
    ELSE s

push32(s, value) ==
    IF s.top < Cap
    THEN [stackarr |-> SetCell(s.stackarr, s.top, value), top |-> s.top + 1]
    ELSE s

push1(s, value) == push32(s, U256From(value))

\* the stack after the call and the Option returned
pop(s) ==
    IF s.top = 0
    THEN [stack |-> s, val |-> None]
    ELSE [stack |-> [s EXCEPT !.top = s.top - 1],
          val |-> Some(Cell(s, s.top - 1))]

\* top - 1 and top - 2 on usize: with fewer than two entries the subtraction
\* overflows (debug build) or the wrapped index fails the slice bounds check
\* (release build); both builds panic.
swapPanics(s) == s.top < 2

\* the indices of stackarr that push32, pop and swap read or write
PushCells(s) == IF s.top < Cap THEN {s.top} ELSE {}
PopCells(s) == IF s.top = 0 THEN {} ELSE {s.top - 1}
SwapCells(s) == IF swapPanics(s) THEN {} ELSE {s.top - 1, s.top - 2}

swap(s) ==
    [s EXCEPT !.stackarr =
        SetCell(SetCell(s.stackarr, s.top - 1, Cell(s, s.top - 2)),
                s.top - 2, Cell(s, s.top - 1))]

----------------------------------------------------------------------------
(* Opcodes                                                                 *)

PUSH32(w) == [op |-> "PUSH32", word |-> w]
PUSH1(b) == [op |-> "PUSH1", value |-> b]
POP == [op |-> "POP"]
DUP1 == [op |-> "DUP1"]
SWAP1 == [op |-> "SWAP1"]
SLOAD == [op |-> "SLOAD"]
SSTORE == [op |-> "SSTORE"]
ISZERO == [op |-> "ISZERO"]
RETURN == [op |-> "RETURN"]

----------------------------------------------------------------------------
(* VM                                                                      *)

VMNew(program) == [stack |-> StackNew, program |-> program, pc |-> 0]

Continue(v, st) == [vm |-> v, storage |-> st, ctl |-> "next", fault |-> "none"]
Break(v, st) == [vm |-> v, storage |-> st, ctl |-> "break", fault |-> "none"]
Panic(v, st, kind) == [vm |-> v, storage |-> st, ctl |-> "panic", fault |-> kind]

\* variant: the program counter is left where it is
AdvanceStuck(v, s) == [v EXCEPT !.stack = s]

Advance(v, s) == [v EXCEPT !.stack = s, !.pc = v.pc + 1]

ExecPUSH32(v, st, word) == Continue(Advance(v, push32(v.stack, word)), st)

ExecPUSH1(v, st, value) == Continue(Advance(v, push1(v.stack, value)), st)

ExecPOP(v, st) == Continue(Advance(v, pop(v.stack).stack), st)

ExecSWAP1(v, st) ==
    IF swapPanics(v.stack)
    THEN Panic(v, st, "swap")
    ELSE Continue(Advance(v, swap(v.stack)), st)

ExecDUP1(v, st) ==
    LET p == pop(v.stack) IN
    IF ~p.val.some
    THEN Panic(v, st, "unwrap")
    ELSE Continue(Advance(v, push32(push32(p.stack, p.val.v), p.val.v)), st)

ExecSLOAD(v, st) ==
    LET p == pop(v.stack) IN
    IF ~p.val.some
    THEN Panic(v, st, "unwrap")
    ELSE LET key == AsUsize(p.val.v) IN
         IF key >= Len(st)
         THEN Panic([v EXCEPT !.stack = p.stack], st, "index")
         ELSE Continue(Advance(v, push32(p.stack, st[key + 1])), st)

\* variant: SSTORE takes the value from the first pop and the key from the second
ExecSSTORE_operands_swapped(v, st) ==
    LET p == pop(v.stack) IN
    IF ~p.val.some
    THEN Panic(v, st, "unwrap")
    ELSE LET q == pop(p.stack) IN
         IF ~q.val.some
         THEN Panic([v EXCEPT !.stack = q.stack], st, "unwrap")
         ELSE LET key == AsUsize(q.val.v) IN
              IF key >= Len(st)
              THEN Panic([v EXCEPT !.stack = q.stack], st, "index")
              ELSE Continue(Advance(v, q.stack),
                            [st EXCEPT ![key + 1] = p.val.v])

ExecSSTORE(v, st) ==
    LET p == pop(v.stack) IN
    IF ~p.val.some
    THEN Panic(v, st, "unwrap")
    ELSE LET q == pop(p.stack) IN
         IF ~q.val.some
         THEN Panic([v EXCEPT !.stack = q.stack], st, "unwrap")
         ELSE LET key == AsUsize(p.val.v) IN
              IF key >= Len(st)
              THEN Panic([v EXCEPT !.stack = q.stack], st, "index")
              ELSE Continue(Advance(v, q.stack),
                            [st EXCEPT ![key + 1] = q.val.v])

\* variant: RETURN advances pc without leaving the loop
ExecRETURN_no_break(v, st) == Continue([v EXCEPT !.pc = v.pc + 1], st)

ExecRETURN(v, st) == Break([v EXCEPT !.pc = v.pc + 1], st)

\* variant: ISZERO tests the low 64 bits of the word only
ExecISZERO_low_bits(v, st) ==
    LET p == pop(v.stack) IN
    IF ~p.val.some
    THEN Panic(v, st, "unwrap")
    ELSE IF AsUsize(p.val.v) = 0
         THEN Continue(Advance(v, push32(p.stack, ONE)), st)
         ELSE Continue(Advance(v, push32(p.stack, ZERO)), st)

ExecISZERO(v, st) ==
    LET p == pop(v.stack) IN
    IF ~p.val.some
    THEN Panic(v, st, "unwrap")
    ELSE IF p.val.v = ZERO
         THEN Continue(Advance(v, push32(p.stack, ONE)), st)
         ELSE Continue(Advance(v, push32(p.stack, ZERO)), st)

\* one iteration of the loop of VM::run
ExecOp(v, st) ==
    LET o == v.program[v.pc + 1] IN
    CASE o.op = "PUSH32" -> ExecPUSH32(v, st, o.word)
      [] o.op = "PUSH1" -> ExecPUSH1(v, st, o.value)
      [] o.op = "POP" -> ExecPOP(v, st)
      [] o.op = "SWAP1" -> ExecSWAP1(v, st)
      [] o.op = "DUP1" -> ExecDUP1(v, st)
      [] o.op = "SLOAD" -> ExecSLOAD(v, st)
      [] o.op = "SSTORE" -> ExecSSTORE(v, st)
      [] o.op = "RETURN" -> ExecRETURN(v, st)
      [] o.op = "ISZERO" -> ExecISZERO(v, st)

LoopCond(v) == v.pc < Len(v.program)

\* VM::run as a whole: the outcome of iterating ExecOp from (v, st)
RECURSIVE run(_, _)
run(v, st) ==
    IF ~LoopCond(v)
    THEN Break(v, st)
    ELSE LET r == ExecOp(v, st) IN
         IF r.ctl = "next" THEN run(r.vm, r.storage) ELSE r

----------------------------------------------------------------------------
(* The syntax tree handed to the lowering pass (crate::solidity::grammar), *)
(* as far as tinyvm.rs matches on it                                       *)

BoolLiteral(val) == [kind |-> "BoolLiteral", val |-> val]
Variable(name) == [kind |-> "Variable", name |-> name]
Assign(left, right) == [kind |-> "Assign", left |-> left, right |-> right]
Not(expr) == [kind |-> "Not", expr |-> expr]
Type(ty) == [kind |-> "Type", ty |-> ty]

Parameter(ty) == [ty |-> ty]

StmtExpression(expr) == [stmt |-> "Expression", expr |-> expr]
StmtReturn(expr) == [stmt |-> "Return", expr |-> expr]

AttrVisibility(v) == [attr |-> "Visibility", v |-> v]
AttrMutability(m) == [attr |-> "Mutability", m |-> m]

FunctionDefinition(name, params, attr_list, ret_params, statement) ==
    [part |-> "FunctionDefinition", name |-> name, params |-> params,
     attr_list |-> attr_list, ret_params |-> ret_params, statement |-> statement]
VariableDefinition(ty, name) ==
    [part |-> "VariableDefinition", ty |-> ty, name |-> name]
ConstructorDefinition == [part |-> "ConstructorDefinition"]

----------------------------------------------------------------------------
(* Contract                                                                *)

EmptyMap == [k \in {} |-> 0]

\* HashMap::insert: the new value replaces the one held for the key
Insert(map, key, value) == (key :> value) @@ map

ContractNew(name) ==
    [name |-> name, functions |-> EmptyMap, variable_map |-> EmptyMap,
     storage |-> <<>>]

\* keccak(in_str)[..4] in lowercase hex, for the signatures of this model
get_func_sig(in_str) ==
    CASE in_str = "get()" -> "6d4ce63c"
      [] in_str = "setTrue()" -> "19849d5b"
      [] in_str = "flip()" -> "cde4efa9"
      [] in_str = "peek()" -> "59e02dd7"
      [] in_str = "vset()" -> "9d8ae275"
      [] in_str = "setc(bool)" -> "7031a71d"
      [] in_str = "pay()" -> "1b9265b8"
      [] in_str = "bad()" -> "9c3674fc"
      [] in_str = "decl()" -> "37cee21d"
      [] in_str = "nop()" -> "2e9c58bb"
      [] in_str = "missing()" -> "a8b00865"

find_function_signature(name, params) ==
    LET params_str ==
            IF params.some
            THEN IF params.v.ty = Type("Bool") THEN "bool" ELSE ""
            ELSE ""
    IN get_func_sig(name \o "(" \o params_str \o ")")

\* the slot a name lowers to: the one recorded, 0 when none is
SlotOf(identifier, c) ==
    IF identifier.name \in DOMAIN c.variable_map
    THEN c.variable_map[identifier.name]
    ELSE 0

\* `slot as u8`
AsU8(slot) == slot % 256

RECURSIVE handle_expression(_, _)
handle_expression(expr, c) ==
    CASE expr.kind = "BoolLiteral" -> <<>>
      [] expr.kind = "Variable" -> <<PUSH1(AsU8(SlotOf(expr, c))), SLOAD>>
      [] expr.kind = "Assign" ->
            IF expr.left.kind = "Variable"
            THEN handle_expression(expr.right, c)
                     \o <<PUSH1(AsU8(SlotOf(expr.left, c))), SSTORE>>
            ELSE <<>>
      [] expr.kind = "Not" -> handle_expression(expr.expr, c) \o <<ISZERO>>
      [] expr.kind = "Type" -> <<>>

\* variant: the arm for `return expr` forgets the RETURN
handle_statement_no_return(statement, c) ==
    CASE statement.stmt = "Expression" -> handle_expression(statement.expr, c)
      [] statement.stmt = "Return" ->
            IF statement.expr.some
            THEN handle_expression(statement.expr.v, c)
            ELSE <<RETURN>>

handle_statement(statement, c) ==
    CASE statement.stmt = "Expression" -> handle_expression(statement.expr, c)
      [] statement.stmt = "Return" ->
            IF statement.expr.some
            THEN handle_expression(statement.expr.v, c) \o <<RETURN>>
            ELSE <<RETURN>>

DefaultVisibility == "Internal"
DefaultMutability == "NonPayable"

\* the fold of handle_attrs over attr_list[i..], from (visibility, mutability)
RECURSIVE fold_attrs(_, _, _, _)
fold_attrs(attr_list, i, visibility, mutability) ==
    IF i > Len(attr_list)
    THEN <<visibility, mutability>>
    ELSE LET attr == attr_list[i] IN
         IF ~attr.some
         THEN fold_attrs(attr_list, i + 1, visibility, mutability)
         ELSE IF attr.v.attr = "Visibility"
              THEN fold_attrs(attr_list, i + 1, attr.v.v, mutability)
              ELSE fold_attrs(attr_list, i + 1, visibility, attr.v.m)

handle_attrs(attr_list) ==
    fold_attrs(attr_list, 1, DefaultVisibility, DefaultMutability)

MakeFunction(program, attrs, ret_params) ==
    [program |-> program, visibility |-> attrs[1], mutability |-> attrs[2],
     returns |-> IF ret_params.some THEN <<ret_params.v>> ELSE <<>>]

handle_contract_part(part, c) ==
    CASE part.part = "FunctionDefinition" ->
            IF part.statement.some
            THEN [c EXCEPT !.functions =
                    Insert(c.functions,
                           find_function_signature(part.name, part.params),
                           MakeFunction(handle_statement(part.statement.v, c),
                                        handle_attrs(part.attr_list),
                                        part.ret_params))]
            ELSE c
      [] part.part = "VariableDefinition" ->
            [c EXCEPT !.variable_map =
                        Insert(c.variable_map, part.name,
                               Cardinality(DOMAIN c.variable_map)),
                      !.storage = Append(c.storage, ZERO)]
      [] part.part = "ConstructorDefinition" -> c

\* "Read return values from stack": the fold over function.returns[i..]
RECURSIVE read_returns(_, _, _, _)
read_returns(returns, i, stack, acc) ==
    IF i > Len(returns)
    THEN [stack |-> stack, ret |-> acc]
    ELSE LET p == pop(stack) IN
         IF p.val.some
         THEN IF returns[i].ty = Type("Bool")
              THEN read_returns(returns, i + 1, p.stack,
                                Append(acc, BoolLiteral(p.val.v = ONE)))
              ELSE read_returns(returns, i + 1, p.stack, acc)
         ELSE read_returns(returns, i + 1, p.stack, acc)

IsViewOrPure(function) == function.mutability \in {"View", "Pure"}

\* variants of the gate: one that always commits, one that never does
GateStorageCommitAlways(function, self_storage, new_storage) == new_storage
GateStorageKeepAlways(function, self_storage, new_storage) == self_storage

\* the storage of the Contract that call returns
GateStorage(function, self_storage, new_storage) ==
    IF IsViewOrPure(function)
    THEN self_storage
    ELSE new_storage

\* variant of the arm `None`: a fresh Contract instead of a clone of self
CallNotFoundFresh(self) == [contract |-> ContractNew(self.name), ret |-> <<>>]

\* the arm `None` of Contract::call
CallNotFound(self) == [contract |-> self, ret |-> <<>>]

\* variant: the returned Contract is a new one of the same name around the
\* storage, instead of a clone of self around it
CallFoundNewContract(self, function, stack, new_storage) ==
    LET r == read_returns(function.returns, 1, stack, <<>>) IN
    [contract |-> [ContractNew(self.name) EXCEPT
                     !.storage = GateStorage(function, self.storage, new_storage)],
     ret |-> r.ret,
     stack |-> r.stack]

\* the arm `Some(function)` of Contract::call once vm.run has returned
CallFound(self, function, stack, new_storage) ==
    LET r == read_returns(function.returns, 1, stack, <<>>) IN
    [contract |-> [self EXCEPT
                     !.storage = GateStorage(function, self.storage, new_storage)],
     ret |-> r.ret,
     stack |-> r.stack]

NoCall == ""

----------------------------------------------------------------------------
(* Direct use of the engine: VM::new, then run                             *)

PushWords == {Word(0, 2), Word(1, 0)}
PushBytes == {0, 1}

Ops ==
    {PUSH32(w) : w \in PushWords} \cup {PUSH1(b) : b \in PushBytes}
        \cup {POP, DUP1, SWAP1, SLOAD, SSTORE, ISZERO, RETURN}

Pushes == {o \in Ops : o.op \in {"PUSH32", "PUSH1"}}

\* programs that store a pushed value under a pushed key and load the key back
StoreLoadPrograms ==
    {<<value, key, SSTORE, key, SLOAD>> : value \in Pushes, key \in Pushes}

Programs ==
    UNION {[1..n -> Ops] : n \in 0..MaxProgLen} \cup StoreLoadPrograms

Storages == {<<>>, <<ZERO, ONE>>}

InitVM ==
    /\ contract = ContractNew("")
    /\ vm = VMNew(<<>>)
    /\ storage = <<>>
    /\ phase = "idle"
    /\ callee = NoCall
    /\ ret = <<>>
    /\ fault = "none"
    /\ executed = <<>>
    /\ lastop = [op |-> "none"]
    /\ lowered = [vars |-> 0, funs |-> 0]
    /\ viewOnly = TRUE

\* VM::new(program, calldata) followed by the entry of run(storage)
NewRun(program, st) ==
    /\ vm' = VMNew(program)
    /\ storage' = st
    /\ phase' = "run"
    /\ fault' = "none"
    /\ executed' = <<>>
    /\ UNCHANGED <<contract, callee, ret, lastop, lowered, viewOnly>>

\* variant: run works on the caller's storage instead of a clone of it
StepInPlace ==
    /\ phase = "run"
    /\ LoopCond(vm)
    /\ LET r == ExecOp(vm, storage) IN
        /\ vm' = r.vm
        /\ storage' = r.storage
        /\ contract' = [contract EXCEPT !.storage = r.storage]
        /\ fault' = r.fault
        /\ phase' = CASE r.ctl = "next" -> "run"
                      [] r.ctl = "break" -> "ran"
                      [] r.ctl = "panic" -> "panic"
    /\ executed' = Append(executed, vm.pc)
    /\ UNCHANGED <<callee, ret, lastop, lowered, viewOnly>>

\* one iteration of `while self.pc < self.program.len()`
Step ==
    /\ phase = "run"
    /\ LoopCond(vm)
    /\ LET r == ExecOp(vm, storage) IN
        /\ vm' = r.vm
        /\ storage' = r.storage
        /\ fault' = r.fault
        /\ phase' = CASE r.ctl = "next" -> "run"
                      [] r.ctl = "break" -> "ran"
                      [] r.ctl = "panic" -> "panic"
    /\ executed' = Append(executed, vm.pc)
    /\ UNCHANGED <<contract, callee, ret, lastop, lowered, viewOnly>>

\* the loop condition fails: run returns `storage`
LoopExit ==
    /\ phase = "run"
    /\ ~LoopCond(vm)
    /\ phase' = "ran"
    /\ UNCHANGED <<contract, vm, storage, callee, ret, fault, executed, lastop, lowered, viewOnly>>

NextVM ==
    \/ /\ phase = "idle"
       /\ \E program \in Programs, st \in Storages : NewRun(program, st)
    \/ Step
    \/ LoopExit

SpecVM == InitVM /\ [][NextVM]_vars

\* run is a loop of one thread, nothing suspends it: an iteration that can be
\* taken is taken
LiveSpecVM == SpecVM /\ WF_vars(Step) /\ WF_vars(LoopExit)

----------------------------------------------------------------------------
(* Lowering a contract definition, then calls on the Contract              *)

X == Variable("x")
Y == Variable("y")
Z == Variable("z")      \* never declared
Bool == Type("Bool")
Other == Type("Other")  \* any type other than Type::Bool

FunctionDefs ==
    { \* function get() public view returns (bool) { return x; }
      FunctionDefinition("get", None,
          <<Some(AttrVisibility("Public")), Some(AttrMutability("View"))>>,
          Some(Parameter(Bool)), Some(StmtReturn(Some(X)))),
      \* function setTrue() public { x = true; }
      FunctionDefinition("setTrue", None, <<Some(AttrVisibility("Public"))>>,
          None, Some(StmtExpression(Assign(X, BoolLiteral(TRUE))))),
      \* function flip() returns (bool) { x = !x; }
      FunctionDefinition("flip", None, <<None>>,
          Some(Parameter(Bool)), Some(StmtExpression(Assign(X, Not(X))))),
      \* function peek() payable pure { y = !x; }
      FunctionDefinition("peek", None,
          <<Some(AttrMutability("Payable")), None, Some(AttrMutability("Pure"))>>,
          None, Some(StmtExpression(Assign(Y, Not(X))))),
      \* function vset() view returns (bool) { return x = !x; }
      FunctionDefinition("vset", None, <<Some(AttrMutability("View"))>>,
          Some(Parameter(Bool)), Some(StmtReturn(Some(Assign(X, Not(X)))))),
      \* function setc(bool) constant external returns (other) { y = !y; }
      FunctionDefinition("setc", Some(Parameter(Bool)),
          <<Some(AttrMutability("Constant")), Some(AttrVisibility("External"))>>,
          Some(Parameter(Other)), Some(StmtExpression(Assign(Y, Not(Y))))),
      \* function pay() payable { y = !x; }
      FunctionDefinition("pay", None, <<Some(AttrMutability("Payable"))>>,
          None, Some(StmtExpression(Assign(Y, Not(X))))),
      \* function bad() { x = (y = !z); }
      FunctionDefinition("bad", None, <<>>, None,
          Some(StmtExpression(Assign(X, Assign(Y, Not(Z)))))),
      \* function nop() private returns (bool) { return; }
      FunctionDefinition("nop", None, <<Some(AttrVisibility("Private"))>>,
          Some(Parameter(Bool)), Some(StmtReturn(None))),
      \* function decl() internal;
      FunctionDefinition("decl", None, <<Some(AttrVisibility("Internal"))>>,
          None, None) }

VariableDefs == {VariableDefinition(Bool, "x"), VariableDefinition(Bool, "y")}

ContractParts == FunctionDefs \cup VariableDefs \cup {ConstructorDefinition}

Unregistered == get_func_sig("missing()")

Calldatas ==
    {find_function_signature(f.name, f.params) : f \in FunctionDefs}
        \cup {Unregistered}

\* handle_source_unit_part: Contract::new(name), no part handled yet
Init ==
    /\ contract = ContractNew("C")
    /\ vm = VMNew(<<>>)
    /\ storage = <<>>
    /\ phase = "lower"
    /\ callee = NoCall
    /\ ret = <<>>
    /\ fault = "none"
    /\ executed = <<>>
    /\ lastop = [op |-> "none"]
    /\ lowered = [vars |-> 0, funs |-> 0]
    /\ viewOnly = TRUE

\* the next contract part of the definition is handled
HandleContractPart(part) ==
    /\ part.part # "ConstructorDefinition" => lowered.vars + lowered.funs < MaxParts
    /\ contract' = handle_contract_part(part, contract)
    /\ lowered' =
        CASE part.part = "VariableDefinition" ->
                [lowered EXCEPT !.vars = lowered.vars + 1]
          [] part.part = "FunctionDefinition" ->
                [lowered EXCEPT !.funs = lowered.funs + 1]
          [] OTHER -> lowered
    /\ UNCHANGED <<vm, storage, phase, callee, ret, fault, executed, lastop, viewOnly>>

\* all parts handled: create_contracts hands the Contract out
FinishLowering ==
    /\ phase = "lower"
    /\ phase' = "ready"
    /\ UNCHANGED <<contract, vm, storage, callee, ret, fault, executed, lastop, lowered, viewOnly>>

\* Contract::call up to the entry of vm.run, or to its return when the
\* selector is not registered. A caller that caught the panic of an earlier
\* call still holds its Contract and may call again.
Call(calldata) ==
    /\ callee' = calldata
    /\ fault' = "none"
    /\ IF calldata \in DOMAIN contract.functions
       THEN /\ vm' = VMNew(contract.functions[calldata].program)
            /\ storage' = contract.storage
            /\ executed' = <<>>
            /\ phase' = "run"
            /\ viewOnly' = (viewOnly /\ IsViewOrPure(contract.functions[calldata]))
            /\ UNCHANGED <<contract, ret>>
       ELSE /\ contract' = CallNotFound(contract).contract
            /\ ret' = CallNotFound(contract).ret
            /\ phase' = "ready"
            /\ UNCHANGED <<vm, storage, executed, viewOnly>>
    /\ UNCHANGED <<lastop, lowered>>

\* vm.run has returned new_storage: the rest of Contract::call
CallReturn ==
    /\ phase = "ran"
    /\ callee # NoCall
    /\ LET r == CallFound(contract, contract.functions[callee], vm.stack, storage) IN
        /\ contract' = r.contract
        /\ ret' = r.ret
        /\ vm' = [vm EXCEPT !.stack = r.stack]
    /\ phase' = "ready"
    /\ UNCHANGED <<storage, callee, fault, executed, lastop, lowered, viewOnly>>

Next ==
    \/ /\ phase = "lower"
       /\ \E part \in ContractParts : HandleContractPart(part)
    \/ FinishLowering
    \/ /\ phase \in {"ready", "panic"}
       /\ \E calldata \in Calldatas : Call(calldata)
    \/ Step
    \/ LoopExit
    \/ CallReturn

Spec == Init /\ [][Next]_vars

----------------------------------------------------------------------------
(* The stack through its public operations (the pub field `stack` of a VM) *)

FillBytes == {1}
StackWords == {Word(1, 0)}

\* depths explored with every operation and every word; between them the
\* stack is only filled, with a byte of FillBytes
NearEmpty(s) == s.top < EdgeDepth
NearFull(s) == s.top >= Cap - EdgeDepth

InitStack ==
    /\ contract = ContractNew("")
    /\ vm = VMNew(<<>>)
    /\ storage = <<>>
    /\ phase = "stack"
    /\ callee = NoCall
    /\ ret = <<>>
    /\ fault = "none"
    /\ executed = <<>>
    /\ lastop = [op |-> "none"]
    /\ lowered = [vars |-> 0, funs |-> 0]
    /\ viewOnly = TRUE

StackPush32(value) ==
    /\ vm' = [vm EXCEPT !.stack = push32(vm.stack, value)]
    /\ lastop' = [op |-> "push32", value |-> value, top |-> vm.stack.top,
                  cells |-> PushCells(vm.stack)]
    /\ UNCHANGED <<contract, storage, phase, callee, ret, fault, executed, lowered, viewOnly>>

StackPush1(value) ==
    /\ vm' = [vm EXCEPT !.stack = push1(vm.stack, value)]
    /\ lastop' = [op |-> "push1", value |-> U256From(value), top |-> vm.stack.top,
                  cells |-> PushCells(vm.stack)]
    /\ UNCHANGED <<contract, storage, phase, callee, ret, fault, executed, lowered, viewOnly>>

StackPop ==
    /\ phase = "stack"
    /\ NearEmpty(vm.stack) \/ NearFull(vm.stack) \/ vm.stack.top = EdgeDepth
    /\ vm' = [vm EXCEPT !.stack = pop(vm.stack).stack]
    /\ lastop' = [op |-> "pop", value |-> pop(vm.stack).val, top |-> vm.stack.top,
                  cells |-> PopCells(vm.stack)]
    /\ UNCHANGED <<contract, storage, phase, callee, ret, fault, executed, lowered, viewOnly>>

StackSwap ==
    /\ phase = "stack"
    /\ NearEmpty(vm.stack) \/ NearFull(vm.stack) \/ vm.stack.top = EdgeDepth
    /\ IF swapPanics(vm.stack)
       THEN /\ phase' = "panic"
            /\ fault' = "swap"
            /\ vm' = vm
       ELSE /\ vm' = [vm EXCEPT !.stack = swap(vm.stack)]
            /\ UNCHANGED <<phase, fault>>
    /\ lastop' = [op |-> "swap", value |-> None, top |-> vm.stack.top,
                  cells |-> SwapCells(vm.stack)]
    /\ UNCHANGED <<contract, storage, callee, ret, executed, lowered, viewOnly>>

\* OP::DUP1 on this stack, the way the code executes it: a VM made by
\* VM::new(vec![OP::DUP1]) holds the stack in its pub field and is run; the
\* arm pops, pushes twice and adds 1 to pc, and the loop ends at pc = 1
StackDup1 ==
    /\ phase = "stack"
    /\ NearEmpty(vm.stack) \/ NearFull(vm.stack) \/ vm.stack.top = EdgeDepth
    /\ LET r == run([VMNew(<<DUP1>>) EXCEPT !.stack = vm.stack], storage) IN
        /\ vm' = r.vm
        /\ IF r.ctl = "panic"
           THEN /\ phase' = "panic"
                /\ fault' = r.fault
           ELSE UNCHANGED <<phase, fault>>
    /\ lastop' =
         LET p == pop(vm.stack) IN
         [op |-> "dup1", value |-> p.val, top |-> vm.stack.top,
          cells |-> IF p.val.some
                    THEN PopCells(vm.stack) \cup PushCells(p.stack)
                           \cup PushCells(push32(p.stack, p.val.v))
                    ELSE {}]
    /\ UNCHANGED <<contract, storage, callee, ret, executed, lowered, viewOnly>>

NextStack ==
    \/ /\ phase = "stack"
       /\ NearEmpty(vm.stack) \/ NearFull(vm.stack)
       /\ \E value \in StackWords : StackPush32(value)
    \/ /\ phase = "stack"
       /\ \E value \in FillBytes : StackPush1(value)
    \/ StackPop
    \/ StackSwap
    \/ StackDup1

SpecStack == InitStack /\ [][NextStack]_vars

----------------------------------------------------------------------------
(* Lowering and calling a contract with more state variables than a byte    *)
(* can number                                                               *)

\* the state variables v0, v1, ... in declaration order
WideName(i) == "v" \o ToString(i)

\* the last of them: its slot, MaxWideVars - 1, does not fit in a u8
W == Variable(WideName(MaxWideVars - 1))

WideFunctionDefs ==
    { \* function get() public view returns (bool) { return w; }
      FunctionDefinition("get", None,
          <<Some(AttrVisibility("Public")), Some(AttrMutability("View"))>>,
          Some(Parameter(Bool)), Some(StmtReturn(Some(W)))),
      \* function flip() public { w = !w; }
      FunctionDefinition("flip", None, <<Some(AttrVisibility("Public"))>>,
          None, Some(StmtExpression(Assign(W, Not(W))))) }

WideCalldatas ==
    {find_function_signature(f.name, f.params) : f \in WideFunctionDefs}

\* the declaration of the next state variable is handled
HandleWideVariable ==
    /\ phase = "lower"
    /\ lowered.vars < MaxWideVars
    /\ contract' = handle_contract_part(
                       VariableDefinition(Bool, WideName(lowered.vars)), contract)
    /\ lowered' = [lowered EXCEPT !.vars = lowered.vars + 1]
    /\ UNCHANGED <<vm, storage, phase, callee, ret, fault, executed, lastop, viewOnly>>

\* a function that names w is handled, after the declaration of w
HandleWideFunction(part) ==
    /\ W.name \in DOMAIN contract.variable_map
    /\ find_function_signature(part.name, part.params) \notin DOMAIN contract.functions
    /\ contract' = handle_contract_part(part, contract)
    /\ lowered' = [lowered EXCEPT !.funs = lowered.funs + 1]
    /\ UNCHANGED <<vm, storage, phase, callee, ret, fault, executed, lastop, viewOnly>>

NextWide ==
    \/ HandleWideVariable
    \/ /\ phase = "lower"
       /\ \E part \in WideFunctionDefs : HandleWideFunction(part)
    \/ FinishLowering
    \/ /\ phase \in {"ready", "panic"}
       /\ \E calldata \in WideCalldatas : Call(calldata)
    \/ Step
    \/ LoopExit
    \/ CallReturn

SpecWide == Init /\ [][NextWide]_vars

----------------------------------------------------------------------------
(* Properties                                                              *)

Registered(calldata) == calldata \in DOMAIN contract.functions

\* a step in which Contract::call hands back its result for a registered function
Returns == phase = "ran" /\ phase' = "ready" /\ callee # NoCall

Zeros(n) == [i \in 1..n |-> ZERO]

\* C1: a call of a View or Pure function returns a Contract whose storage is,
\* slot for slot, the storage before the call, whatever the program stored;
\* so as long as only View or Pure functions have been called the storage is
\* the one lowering produced (one ZERO per variable definition).
C1_ViewPureKeepsStorage ==
    /\ [][(Returns /\ IsViewOrPure(contract.functions[callee]))
            => contract'.storage = contract.storage]_vars
    /\ [](viewOnly => contract.storage = Zeros(lowered.vars))

\* a View or Pure call has returned after its program changed the engine's storage
C1_Witness ==
    /\ phase = "ready"
    /\ Registered(callee)
    /\ IsViewOrPure(contract.functions[callee])
    /\ fault = "none"
    /\ storage # contract.storage
    /\ viewOnly

\* C2: a call of a function that is neither View nor Pure returns a Contract
\* whose storage is the storage VM::run produces for the function's program
\* from a copy of the storage before the call.
C2_OtherwiseCommits ==
    [][(Returns /\ ~IsViewOrPure(contract.functions[callee]))
         => contract'.storage =
                run(VMNew(contract.functions[callee].program),
                    contract.storage).storage]_vars

\* a call of a function with the default mutability has returned and
\* committed a storage that differs from the lowered one
C2_Witness ==
    /\ phase = "ready"
    /\ Registered(callee)
    /\ contract.functions[callee].mutability = DefaultMutability
    /\ fault = "none"
    /\ contract.storage = storage
    /\ contract.storage # Zeros(Len(contract.storage))

\* C3: a call with a selector that is not a key of the function table hands
\* back the Contract unchanged and an empty list, runs nothing and does not
\* fault.
C3_UnknownSelector ==
    [][(phase \in {"ready", "panic"} /\ callee' \notin DOMAIN contract.functions)
         => /\ contract' = contract
            /\ ret' = <<>>
            /\ phase' = "ready"
            /\ fault' = "none"
            /\ <<vm, storage, executed>>' = <<vm, storage, executed>>]_vars

\* an unregistered selector has been called on a Contract that holds
\* functions and a storage changed by an earlier call
C3_Witness ==
    /\ phase = "ready"
    /\ callee = Unregistered
    /\ ~Registered(callee)
    /\ DOMAIN contract.functions # {}
    /\ contract.storage # Zeros(Len(contract.storage))
    /\ ret = <<>>

\* C4: with `bool x` at slot 0, setTrue() { x = true; } lowers to a program
\* that stores the word 1 at slot 0, a call of it completes without fault and
\* leaves 1 in slot 0, and get() on the returned Contract returns [true].
C4_SetTrueThenGet ==
    LET setTrue == get_func_sig("setTrue()")
        get == get_func_sig("get()")
    IN (/\ phase # "lower"
        /\ contract.variable_map = ("x" :> 0)
        /\ DOMAIN contract.functions = {setTrue, get})
        => /\ LET r == run(VMNew(contract.functions[setTrue].program), <<ZERO>>)
              IN r.ctl # "panic" /\ r.storage = <<ONE>>
           /\ callee = setTrue => fault = "none"
           /\ (callee = setTrue /\ phase = "ready") => contract.storage = <<ONE>>
           /\ (callee = get /\ phase = "ready" /\ contract.storage = <<ONE>>)
                => ret = <<BoolLiteral(TRUE)>>

\* the contract of one bool variable x at slot 0 with get() registered
C5_Scenario ==
    /\ phase # "lower"
    /\ contract.variable_map = ("x" :> 0)
    /\ Len(contract.storage) = 1
    /\ Registered(get_func_sig("get()"))

\* C5: with one bool variable at slot 0 holding zero, get() lowers to exactly
\* [PUSH1(0), SLOAD, RETURN]; a call of it returns [false] and a Contract
\* whose storage is the storage before the call.
C5_GetReturnsFalse ==
    /\ [](C5_Scenario =>
            contract.functions[get_func_sig("get()")].program
                = <<PUSH1(0), SLOAD, RETURN>>)
    /\ [][(/\ C5_Scenario
           /\ Returns
           /\ callee = get_func_sig("get()")
           /\ contract.storage = <<ZERO>>)
            => (ret' = <<BoolLiteral(FALSE)>>
                /\ contract'.storage = contract.storage)]_vars

\* get() has returned [false] from the one-variable contract after executing
\* its three instructions
C5_Witness ==
    /\ phase = "ready"
    /\ callee = get_func_sig("get()")
    /\ Registered(callee)
    /\ contract.variable_map = ("x" :> 0)
    /\ contract.storage = <<ZERO>>
    /\ executed = <<0, 1, 2>>
    /\ ret = <<BoolLiteral(FALSE)>>

InRun == phase \in {"run", "ran", "panic"}

\* C6: VM::run halts after fetching at most program.len() instructions: the
\* program counter starts at 0, an executed instruction moves it up by
\* exactly 1 (a panicking one ends the run), the indices fetched are 0, 1, 2,
\* ... with none fetched twice, and every run started comes to its end.
C6_RunTerminates ==
    /\ [](InRun =>
            /\ Len(executed) <= Len(vm.program)
            /\ \A i \in 1..Len(executed) : executed[i] = i - 1
            /\ vm.pc = IF phase = "panic" THEN Len(executed) - 1 ELSE Len(executed))
    /\ [][(phase = "idle" /\ phase' = "run") => vm'.pc = 0]_vars
    /\ [][(phase = "run" /\ phase' \in {"run", "ran"} /\ executed' # executed)
            => vm'.pc = vm.pc + 1]_vars
    /\ (phase = "run") ~> (phase \in {"ran", "panic"})

\* a run of a longest program has come to its end having executed every instruction
C6_Witness ==
    /\ phase = "ran"
    /\ Len(vm.program) >= 3
    /\ vm.pc = Len(vm.program)
    /\ Len(executed) = Len(vm.program)

\* the fault conditions of the instruction about to be executed: a push on a
\* full stack, too few entries for the opcode, a key at or beyond the end of
\* storage (the key compared as a 256-bit word)
KeyOutOfRange(key, st) == key.hi > 0 \/ key.lo >= Len(st)

CurrentOp == vm.program[vm.pc + 1].op

TopWord == Cell(vm.stack, vm.stack.top - 1)

Underflow ==
    \/ CurrentOp \in {"POP", "DUP1", "SLOAD", "ISZERO"} /\ vm.stack.top = 0
    \/ CurrentOp \in {"SWAP1", "SSTORE"} /\ vm.stack.top < 2

Overflow ==
    \/ CurrentOp \in {"PUSH32", "PUSH1"} /\ vm.stack.top = Cap
    \/ CurrentOp = "DUP1" /\ vm.stack.top = Cap

BadSlot ==
    /\ CurrentOp \in {"SLOAD", "SSTORE"}
    /\ ~Underflow
    /\ KeyOutOfRange(TopWord, storage)

Executing == phase = "run" /\ LoopCond(vm)

\* C7: when the program of a called function faults (stack underflow, stack
\* overflow, invalid storage slot) the call is aborted, and the caller's
\* Contract is what it was before the call: no step of a call in progress or
\* of an aborted one changes it.
C7_FaultKeepsContract ==
    /\ [][(Executing /\ (Underflow \/ Overflow \/ BadSlot))
            => (phase' = "panic" /\ contract' = contract)]_vars
    /\ [][(phase \in {"run", "panic"}) => (contract' = contract)]_vars

\* a call was aborted after its program had written to the engine's storage
C7_Witness ==
    /\ phase = "panic"
    /\ Registered(callee)
    /\ ~IsViewOrPure(contract.functions[callee])
    /\ storage # contract.storage

IsPush == lastop.op \in {"push32", "push1"}

\* C8: from an empty stack 1024 pushes succeed (each stores its word and
\* moves top up by one, to 1024), and a push on the full stack faults
\* instead of dropping the word and going on.
C8_PushFaultsWhenFull ==
    /\ (IsPush /\ lastop.top < Cap)
         => /\ vm.stack.top = lastop.top + 1
            /\ Cell(vm.stack, lastop.top) = lastop.value
            /\ fault = "none"
    /\ (IsPush /\ lastop.top = Cap) => fault # "none"

\* C9: an opcode executed with too few stack entries (Pop, Dup1, Load, IsZero
\* on an empty stack, Swap1 or Store with fewer than two entries) faults and
\* the run does not go on.
C9_UnderflowFaults ==
    [][(Executing /\ Underflow) => phase' = "panic"]_vars

\* C10: Load or Store with a key k >= storage length, k taken as the 256-bit
\* word it is, faults and reads or writes no slot.
C10_BadSlotFaults ==
    [][(Executing /\ BadSlot)
         => (phase' = "panic" /\ storage' = storage)]_vars

\* the instruction at index i of the running program
OpAt(i) == vm.program[i + 1]

\* the word an instruction pushes
Pushed(o) == IF o.op = "PUSH32" THEN o.word ELSE U256From(o.value)

\* the run has just executed, without fault, a load at index 4 that follows
\* a store of a pushed value under the same pushed, in-range key
StoredThenLoaded ==
    /\ phase \in {"run", "ran"}
    /\ vm.program \in StoreLoadPrograms
    /\ Len(executed) = 5

\* C11: for a key k below the storage length and any word v, a Store of v
\* under k followed by a Load of k leaves v on top of the stack, and the
\* Store changes slot k and no other slot.
C11_StoreThenLoad ==
    /\ [](StoredThenLoaded => TopWord = Pushed(OpAt(0)))
    /\ [][(Executing /\ CurrentOp = "SSTORE" /\ ~Underflow /\ ~BadSlot)
            => LET key == AsUsize(Cell(vm.stack, vm.stack.top - 1))
                   value == Cell(vm.stack, vm.stack.top - 2)
               IN /\ phase' = "run"
                  /\ storage' = [storage EXCEPT ![key + 1] = value]]_vars

\* a value with a non-zero high half was stored under key 1 and loaded back
C11_Witness ==
    /\ StoredThenLoaded
    /\ Pushed(OpAt(0)) = Word(1, 0)
    /\ Pushed(OpAt(1)) = ONE
    /\ storage = <<ZERO, Word(1, 0)>>

\* the entries below both the old and the new top are the same cells
KeepsEntriesBelow ==
    \A i \in 0..(vm.stack.top - 1) :
        i < vm'.stack.top => Cell(vm'.stack, i) = Cell(vm.stack, i)

\* C12: in every reachable stack state, a push of a word w followed by a pop
\* returns w and leaves the stack as it was before the push: the same top,
\* and the same entries below it.
C12_PushThenPop ==
    /\ [][(IsPush /\ lastop'.op = "pop")
            => /\ lastop'.value = Some(lastop.value)
               /\ vm'.stack.top = lastop.top]_vars
    /\ [][(lastop'.op \in {"push32", "push1", "pop"}) => KeepsEntriesBelow]_vars

\* C13: IsZero on a non-empty stack replaces the top word v by exactly 1
\* when v is 0 and by exactly 0 otherwise; the depth, the entries below the
\* top and the storage are unchanged.
C13_IsZeroReplacesTop ==
    [][(Executing /\ CurrentOp = "ISZERO" /\ ~Underflow)
         => /\ phase' = "run"
            /\ vm'.stack.top = vm.stack.top
            /\ Cell(vm'.stack, vm.stack.top - 1)
                 = (IF TopWord = ZERO THEN ONE ELSE ZERO)
            /\ \A i \in 0..(vm.stack.top - 2) :
                   Cell(vm'.stack, i) = Cell(vm.stack, i)
            /\ storage' = storage]_vars

\* IsZero has replaced 2^64, a non-zero word whose low half is zero, by 0
\* above another entry
C13_Witness ==
    /\ phase \in {"run", "ran"}
    /\ Len(executed) = 3
    /\ OpAt(2) = ISZERO
    /\ OpAt(1) = PUSH32(Word(1, 0))
    /\ vm.stack.top = 2
    /\ TopWord = ZERO

\* C14: after any sequence of state-variable declarations has been lowered,
\* duplicates of a name included, the slot map gives distinct names distinct
\* indices, the indices are exactly 0..n-1 for its n names, every index is
\* below the storage length, the storage length is the number of
\* declarations handled, and every slot is zero.
C14_SlotsContiguous ==
    phase = "lower"
        => LET slots == contract.variable_map
               names == DOMAIN slots
           IN /\ \A a, b \in names : a # b => slots[a] # slots[b]
              /\ {slots[a] : a \in names} = 0..(Cardinality(names) - 1)
              /\ \A a \in names : slots[a] < Len(contract.storage)
              /\ Len(contract.storage) = lowered.vars
              /\ contract.storage = Zeros(lowered.vars)

\* the declared return parameters of type bool
BoolReturns(function) ==
    {i \in 1..Len(function.returns) : function.returns[i].ty = Bool}

\* C15: a call of a registered function returns a list with exactly one
\* entry for each declared bool return parameter, obtained by popping one
\* word from the final stack: true exactly when the word is 1; a function
\* that declares no return parameter returns the empty list.
C15_OneEntryPerBoolReturn ==
    [][Returns
         => LET function == contract.functions[callee] IN
            /\ Len(ret') = Cardinality(BoolReturns(function))
            /\ function.returns = <<>> => ret' = <<>>
            /\ (BoolReturns(function) = {1} /\ vm.stack.top > 0)
                 => ret' = <<BoolLiteral(TopWord = ONE)>>]_vars

\* C16: a Return at index i ends the run with pc = i + 1; no opcode at an
\* index above i is executed in that run, and the stack and the storage at
\* the end are those immediately before the Return.
C16_ReturnHalts ==
    /\ [][(Executing /\ CurrentOp = "RETURN")
            => /\ phase' = "ran"
               /\ vm'.pc = vm.pc + 1
               /\ vm'.stack = vm.stack
               /\ storage' = storage]_vars
    /\ [](\A j \in 1..(Len(executed) - 1) : OpAt(executed[j]) # RETURN)
    /\ [][(phase = "ran") => UNCHANGED <<vm, storage, executed>>]_vars

\* a run over a non-empty storage ended by a Return that has an opcode after
\* it, with a stack entry pushed before the Return
C16_Witness ==
    /\ phase = "ran"
    /\ vm.pc < Len(vm.program)
    /\ OpAt(vm.pc - 1) = RETURN
    /\ Len(executed) = vm.pc
    /\ vm.stack.top > 0
    /\ storage # <<>>

\* C17: every program stored in the function table ends with Return: the
\* body of an expression statement gets a trailing Return, the body of a
\* return statement ends in its Return, and there is exactly one Return.
C17_ProgramsEndWithReturn ==
    \A sig \in DOMAIN contract.functions :
        LET program == contract.functions[sig].program IN
        /\ program # <<>>
        /\ program[Len(program)] = RETURN
        /\ Cardinality({i \in 1..Len(program) : program[i] = RETURN}) = 1

\* the slot recorded for w
SlotOfW == contract.variable_map[W.name]

\* C18: for a state variable declared before the function and recorded with
\* slot s, slots of 256 and more included, a reference lowers to
\* [PushByte(s), Load] and an assignment to rhs ++ [PushByte(s), Store], so
\* that running the lowered code reads or writes slot s and no other slot.
C18_SlotAddressing ==
    /\ \A f \in WideFunctionDefs :
         LET sig == find_function_signature(f.name, f.params) IN
         sig \in DOMAIN contract.functions
           => contract.functions[sig].program
                = IF f.name = "get"
                  THEN <<PUSH1(SlotOfW), SLOAD, RETURN>>
                  ELSE <<PUSH1(SlotOfW), SLOAD, ISZERO, PUSH1(SlotOfW), SSTORE>>
    /\ \A i \in 1..Len(contract.storage) :
         i # MaxWideVars => contract.storage[i] = ZERO

\* C19: after any sequence of push, pushByte, pop and swapTop2, a swapTop2
\* with fewer than two entries and a Dup1 on a full stack included, top is
\* within 0..1024, and no operation reads or writes a stack cell outside
\* 0..1023.
C19_TopAndCellsInRange ==
    /\ vm.stack.top \in 0..Cap
    /\ Len(vm.stack.stackarr) <= Cap
    /\ lastop.op # "none" => lastop.cells \subseteq 0..(Cap - 1)

\* Dup1 was applied to a full stack
C19_Witness ==
    /\ lastop.op = "dup1"
    /\ lastop.top = Cap
    /\ lastop.cells = {Cap - 1}
    /\ vm.stack.top = Cap

\* C20: after any sequence of calls on a lowered Contract, its name, its
\* function table and its slot map are those lowering produced, and its
\* storage has one slot per declared state variable: only the values of the
\* slots can differ.
C20_OnlySlotValuesChange ==
    /\ [][(phase # "lower")
            => /\ contract'.name = contract.name
               /\ contract'.functions = contract.functions
               /\ contract'.variable_map = contract.variable_map
               /\ Len(contract'.storage) = Len(contract.storage)]_vars
    /\ [](phase # "lower" => Len(contract.storage) = lowered.vars)

\* a call of one of two registered functions has returned a Contract whose
\* slot values are no longer the zeros of lowering
C20_Witness ==
    /\ phase = "ready"
    /\ Registered(callee)
    /\ Cardinality(DOMAIN contract.functions) = 2
    /\ lowered.vars = 1
    /\ contract.storage = <<ONE>>

====
